---- MODULE Spec2Model ----
(***************************************************************************)
(* Model of scripts/generate-og-image.py: a straight-line script that      *)
(* creates a 1200x630 RGB canvas, fills it with a vertical gradient, draws *)
(* decorative shapes, resolves three fonts through a try/except chain,     *)
(* draws centred text and badges, saves the PNG and prints a message.      *)
(*                                                                         *)
(* Numbers.  Python's "/" is float division.  Every float the script       *)
(* computes is a small rational whose truncation is decided far from a     *)
(* rounding boundary (a channel value is an integer or at least 1/21 away  *)
(* from one; a text offset is a multiple of 1/2), so the model computes    *)
(* with exact rationals: a channel as numerator/denominator, a text        *)
(* x-coordinate in units of half a pixel.                                  *)
(***************************************************************************)
EXTENDS Integers, Sequences, FiniteSets

VARIABLES
    pc,            \* position in the script
    width,         \* line 6
    height,        \* line 7
    image,         \* the canvas: mode and size (line 8)
    y,             \* gradient loop variable (line 12)
    rows,          \* rows[k+1] = colour of the line drawn at row k (line 17)
    ops,           \* shapes drawn on the canvas after the gradient
    loaded,        \* outcome of each of the six truetype calls
    title_font,
    tagline_font,
    badge_font,
    title_width,   \* line 73
    tagline_width, \* line 79
    text_width,    \* line 103
    title_pos,     \* xy given to draw.text at line 74, x in half pixels
    tagline_pos,   \* xy given to draw.text at line 80, x in half pixels
    badge_pos,     \* xy given to draw.text at line 104, x in half pixels
    badge_i,       \* index of the badge the loop at line 93 is at
    saved,         \* outcome of image.save: "no", "ok" or "failed"
    printed,       \* the success message has been printed
    exitCode       \* process exit status, -1 while running

vars == <<pc, width, height, image, y, rows, ops, loaded, title_font,
          tagline_font, badge_font, title_width, tagline_width, text_width,
          title_pos, tagline_pos, badge_pos, badge_i, saved, printed,
          exitCode>>

(***************************************************************************)
(* Bound: text widths a measurement may return are 0..MaxTextWidth.        *)
(***************************************************************************)
MaxTextWidth == 3

TextWidths == 0..MaxTextWidth

(***************************************************************************)
(* Program constants.                                                      *)
(***************************************************************************)
CanvasWidth == 1200

CanvasHeight == 630

StartColor == <<139, 92, 246>>

EndColor == <<109, 40, 217>>

NoImage == [mode |-> "none", size |-> <<0, 0>>]

\* variant of NewImage: the size tuple given as (height, width)
NewImageSwapped(w, h) == [mode |-> "RGB", size |-> <<h, w>>]

\* Image.new('RGB', (width, height))
NewImage(w, h) == [mode |-> "RGB", size |-> <<w, h>>]

\* int(num / den) for den > 0: truncation toward zero
IntTrunc(num, den) ==
    IF num >= 0 THEN num \div den ELSE -((-num) \div den)

\* variant of Channel: interpolation based at the end value
ChannelFromEnd(start, end, row, h) ==
    IntTrunc(end * h + (end - start) * row, h)

\* variant of Channel: floor division y // height as the ratio
ChannelIntRatio(start, end, row, h) ==
    start + (end - start) * (row \div h)

\* variant of Channel: the result rounded up instead of truncated
ChannelCeil(start, end, row, h) ==
    -((-(start * h + (end - start) * row)) \div h)

\* variant of Channel: the difference taken as start - end
ChannelSignError(start, end, row, h) ==
    IntTrunc(start * h + (start - end) * row, h)

\* int(start + (end - start) * y / height)
Channel(start, end, row, h) ==
    IntTrunc(start * h + (end - start) * row, h)

\* the (r, g, b) of lines 14-16
GradientColor(row, h) ==
    <<Channel(StartColor[1], EndColor[1], row, h),
      Channel(StartColor[2], EndColor[2], row, h),
      Channel(StartColor[3], EndColor[3], row, h)>>

\* the truetype calls of the first try block (lines 57-59)
PrimarySteps == {"load_p_title", "load_p_tagline", "load_p_badge"}

\* the truetype calls of the nested try block (lines 62-64)
SecondarySteps == {"load_s_title", "load_s_tagline", "load_s_badge"}

LoadSteps == PrimarySteps \cup SecondarySteps

\* a font variable that no statement has assigned yet
NoFont == [path |-> "unset", size |-> 0]

Init ==
    /\ pc = "create"
    /\ width = 0
    /\ height = 0
    /\ image = NoImage
    /\ y = 0
    /\ rows = <<>>
    /\ ops = <<>>
    /\ loaded = [k \in LoadSteps |-> "untried"]
    /\ title_font = NoFont
    /\ tagline_font = NoFont
    /\ badge_font = NoFont
    /\ title_width = 0
    /\ tagline_width = 0
    /\ text_width = 0
    /\ title_pos = <<>>
    /\ tagline_pos = <<>>
    /\ badge_pos = <<>>
    /\ badge_i = 0
    /\ saved = "no"
    /\ printed = FALSE
    /\ exitCode = -1

\* lines 6-9
CreateCanvas ==
    /\ pc = "create"
    /\ width' = CanvasWidth
    /\ height' = CanvasHeight
    /\ image' = NewImage(CanvasWidth, CanvasHeight)
    /\ pc' = "gradient"
    /\ UNCHANGED <<y, rows, ops, loaded, title_font, tagline_font,
                   badge_font, title_width, tagline_width, text_width,
                   title_pos, tagline_pos, badge_pos, badge_i, saved,
                   printed, exitCode>>

\* lines 12-17: one iteration of "for y in range(height)"
GradientRow ==
    /\ pc = "gradient"
    /\ y < height
    /\ rows' = Append(rows, GradientColor(y, height))
    /\ y' = y + 1
    /\ UNCHANGED <<pc, width, height, image, ops, loaded, title_font,
                   tagline_font, badge_font, title_width, tagline_width,
                   text_width, title_pos, tagline_pos, badge_pos, badge_i,
                   saved, printed, exitCode>>

\* range(20, limit, 40)
DotRange(limit) == {20 + 40 * k : k \in 0..((limit - 21) \div 40)}

\* lines 20-22 (entered when range(height) is exhausted): the dot overlay
DrawDots ==
    /\ pc = "gradient"
    /\ y = height
    /\ ops' = Append(ops, [op |-> "dots",
                           n |-> Cardinality(DotRange(width) \X DotRange(height)),
                           fill |-> <<255, 255, 255, 13>>])
    /\ pc' = "icon"
    /\ UNCHANGED <<width, height, image, y, rows, loaded, title_font,
                   tagline_font, badge_font, title_width, tagline_width,
                   text_width, title_pos, tagline_pos, badge_pos, badge_i,
                   saved, printed, exitCode>>

icon_x == 440

icon_y == 140

icon_size == 120

\* draw.rounded_rectangle([x0, y0, x1, y1], radius, fill)
RoundedRect(x0, y0, x1, y1, radius, alpha) ==
    [op |-> "rounded_rectangle", box |-> <<x0, y0, x1, y1>>,
     radius |-> radius, fill |-> <<255, 255, 255, alpha>>]

\* lines 25-53: icon background and the three cascade steps
DrawIcon ==
    /\ pc = "icon"
    /\ ops' = ops \o
         << RoundedRect(icon_x, icon_y, icon_x + icon_size,
                        icon_y + icon_size, 24, 38),
            RoundedRect(icon_x + 20, icon_y + 20, icon_x + 44, icon_y + 44,
                        4, 242),
            RoundedRect(icon_x + 48, icon_y + 48, icon_x + 78, icon_y + 72,
                        4, 217),
            RoundedRect(icon_x + 70, icon_y + 72, icon_x + 104, icon_y + 96,
                        4, 191) >>
    /\ pc' = "load_p_title"
    /\ UNCHANGED <<width, height, image, y, rows, loaded, title_font, tagline_font,
                   badge_font, title_width, tagline_width, text_width,
                   title_pos, tagline_pos, badge_pos, badge_i, saved,
                   printed, exitCode>>

(***************************************************************************)
(* Font resolution, lines 56-68.  Each ImageFont.truetype call is a step   *)
(* that either returns a font or raises; the bare "except:" of the         *)
(* enclosing try block decides where a raise continues.                    *)
(***************************************************************************)
\* the variable each truetype call assigns
StepAsset(step) ==
    CASE step \in {"load_p_title", "load_s_title"} -> "title"
      [] step \in {"load_p_tagline", "load_s_tagline"} -> "tagline"
      [] step \in {"load_p_badge", "load_s_badge"} -> "badge"

\* ImageFont.truetype(path, size) when it returns
StepFont(step) ==
    CASE step = "load_p_title" ->
           [path |-> "/System/Library/Fonts/Supplemental/Arial Bold.ttf", size |-> 72]
      [] step = "load_p_tagline" ->
           [path |-> "/System/Library/Fonts/Supplemental/Arial.ttf", size |-> 32]
      [] step = "load_p_badge" ->
           [path |-> "/System/Library/Fonts/Supplemental/Arial Bold.ttf", size |-> 18]
      [] step = "load_s_title" ->
           [path |-> "/Library/Fonts/Arial Bold.ttf", size |-> 72]
      [] step = "load_s_tagline" ->
           [path |-> "/Library/Fonts/Arial.ttf", size |-> 32]
      [] step = "load_s_badge" ->
           [path |-> "/Library/Fonts/Arial Bold.ttf", size |-> 18]

\* ImageFont.load_default()
DefaultFont == [path |-> "load_default", size |-> 0]

\* the statement after a truetype call that returned
OnSuccess(step) ==
    CASE step = "load_p_title" -> "load_p_tagline"
      [] step = "load_p_tagline" -> "load_p_badge"
      [] step = "load_p_badge" -> "title"
      [] step = "load_s_title" -> "load_s_tagline"
      [] step = "load_s_tagline" -> "load_s_badge"
      [] step = "load_s_badge" -> "title"

\* variant of OnFailure: the nested except clause leaves the fonts as they are
OnFailureKeepPartial(step) ==
    IF step \in PrimarySteps THEN "load_s_title" ELSE "title"

\* variant of OnFailure: no except clause around the nested try block
OnFailureFatal(step) ==
    IF step \in PrimarySteps THEN "load_s_title" ELSE "error"

\* the except clause a raising truetype call continues at
OnFailure(step) ==
    IF step \in PrimarySteps THEN "load_s_title" ELSE "load_default"

\* one truetype call of lines 57-59 or 62-64
LoadFont ==
    /\ pc \in LoadSteps
    /\ \E ok \in BOOLEAN :
         /\ loaded' = [loaded EXCEPT ![pc] = IF ok THEN "ok" ELSE "failed"]
         /\ pc' = IF ok THEN OnSuccess(pc) ELSE OnFailure(pc)
         /\ title_font' = IF ok /\ StepAsset(pc) = "title"
                             THEN StepFont(pc) ELSE title_font
         /\ tagline_font' = IF ok /\ StepAsset(pc) = "tagline"
                               THEN StepFont(pc) ELSE tagline_font
         /\ badge_font' = IF ok /\ StepAsset(pc) = "badge"
                             THEN StepFont(pc) ELSE badge_font
    /\ UNCHANGED <<width, height, image, y, rows, ops, title_width,
                   tagline_width, text_width, title_pos, tagline_pos,
                   badge_pos, badge_i, saved, printed, exitCode>>

\* lines 66-68
LoadDefault ==
    /\ pc = "load_default"
    /\ title_font' = DefaultFont
    /\ tagline_font' = DefaultFont
    /\ badge_font' = DefaultFont
    /\ pc' = "title"
    /\ UNCHANGED <<width, height, image, y, rows, ops, loaded, title_width,
                   tagline_width, text_width, title_pos, tagline_pos,
                   badge_pos, badge_i, saved, printed, exitCode>>

(***************************************************************************)
(* Text layout, lines 71-104.  draw.textbbox returns a box whose width     *)
(* depends on the font; the model draws it from TextWidths.                *)
(***************************************************************************)
\* variant of HalfDiff: a/2 - b, the text width not halved
HalfDiffNotHalved(a, b) == a - 2 * b

\* a/2 - b/2 for integers a, b, in half pixels
HalfDiff(a, b) == a - b

\* lines 71-74
DrawTitle ==
    /\ pc = "title"
    /\ \E w \in TextWidths :
         /\ title_width' = w
         /\ title_pos' = <<HalfDiff(width, w), 280>>
    /\ pc' = "tagline"
    /\ UNCHANGED <<width, height, image, y, rows, ops, loaded, title_font,
                   tagline_font, badge_font, tagline_width, text_width,
                   tagline_pos, badge_pos, badge_i, saved, printed,
                   exitCode>>

\* lines 77-80
DrawTagline ==
    /\ pc = "tagline"
    /\ \E w \in TextWidths :
         /\ tagline_width' = w
         /\ tagline_pos' = <<HalfDiff(width, w), 360>>
    /\ pc' = "badges"
    /\ badge_i' = 1
    /\ UNCHANGED <<width, height, image, y, rows, ops, loaded, title_font,
                   tagline_font, badge_font, title_width, text_width,
                   title_pos, badge_pos, saved, printed, exitCode>>

\* lines 83-88
badges == << [text |-> "Private", x |-> 300], [text |-> "Kanban", x |-> 460],
             [text |-> "A11y", x |-> 620], [text |-> "Fast", x |-> 780] >>

badge_y == 450

badge_height == 48

\* lines 93-104: one iteration of "for badge in badges"
DrawBadge ==
    /\ pc = "badges"
    /\ badge_i <= Len(badges)
    /\ LET badge == badges[badge_i] IN
         /\ ops' = Append(ops, RoundedRect(badge.x, badge_y, badge.x + 140,
                                           badge_y + badge_height, 24, 51))
         /\ \E w \in TextWidths :
              /\ text_width' = w
              /\ badge_pos' = <<HalfDiff(2 * (badge.x + 70), w), badge_y + 15>>
    /\ badge_i' = badge_i + 1
    /\ UNCHANGED <<pc, width, height, image, y, rows, loaded, title_font,
                   tagline_font, badge_font, title_width, tagline_width,
                   title_pos, tagline_pos, saved, printed, exitCode>>

\* variant of AfterSave: a raise of image.save swallowed
AfterSaveCaught(ok) == "print"

\* where the script continues after image.save returned (ok) or raised
AfterSave(ok) == IF ok THEN "print" ELSE "error"

\* lines 107-108 (entered when the badge list is exhausted); a raise of
\* image.save is not caught: the interpreter exits with status 1
SaveImage ==
    /\ pc = "badges"
    /\ badge_i > Len(badges)
    /\ \E ok \in BOOLEAN :
         /\ saved' = IF ok THEN "ok" ELSE "failed"
         /\ pc' = AfterSave(ok)
         /\ exitCode' = IF AfterSave(ok) = "error" THEN 1 ELSE exitCode
    /\ UNCHANGED <<width, height, image, y, rows, ops, loaded, title_font,
                   tagline_font, badge_font, title_width, tagline_width,
                   text_width, title_pos, tagline_pos, badge_pos, badge_i,
                   printed>>

\* line 109, then the end of the script
PrintSuccess ==
    /\ pc = "print"
    /\ printed' = TRUE
    /\ exitCode' = 0
    /\ pc' = "done"
    /\ UNCHANGED <<width, height, image, y, rows, ops, loaded, title_font,
                   tagline_font, badge_font, title_width, tagline_width,
                   text_width, title_pos, tagline_pos, badge_pos, badge_i,
                   saved>>

Next ==
    \/ CreateCanvas
    \/ GradientRow
    \/ DrawDots
    \/ DrawIcon
    \/ LoadFont
    \/ LoadDefault
    \/ DrawTitle
    \/ DrawTagline
    \/ DrawBadge
    \/ SaveImage
    \/ PrintSuccess

Spec == Init /\ [][Next]_vars

\* the script runs to its end: no statement waits for anything
FairSpec == Spec /\ WF_vars(Next)

TypeOK ==
    /\ pc \in {"create", "gradient", "icon", "load_default", "title",
               "tagline", "badges", "print", "done", "error"}
              \cup LoadSteps
    /\ y \in 0..CanvasHeight
    /\ Len(rows) = y
    /\ saved \in {"no", "ok", "failed"}
    /\ printed \in BOOLEAN
    /\ exitCode \in {-1, 0, 1}

(***************************************************************************)
(* Properties.                                                             *)
(***************************************************************************)
Abs(n) == IF n < 0 THEN -n ELSE n

\* the script is past the font try/except block
FontsResolved == pc \in {"title", "tagline", "badges", "print", "done", "error"}

PrimaryFonts == <<StepFont("load_p_title"), StepFont("load_p_tagline"),
                  StepFont("load_p_badge")>>

SecondaryFonts == <<StepFont("load_s_title"), StepFont("load_s_tagline"),
                    StepFont("load_s_badge")>>

Fonts == <<title_font, tagline_font, badge_font>>

\* C1: every channel of every gradient row drawn so far lies between its
\* two endpoint values: 109 <= r <= 139, 40 <= g <= 92, 217 <= b <= 246.
ChannelsWithinEndpoints ==
    \A k \in 1..Len(rows) :
        /\ 109 <= rows[k][1] /\ rows[k][1] <= 139
        /\ 40 <= rows[k][2] /\ rows[k][2] <= 92
        /\ 217 <= rows[k][3] /\ rows[k][3] <= 246

\* the whole gradient is drawn and some row is strictly inside every range
ChannelsWithinEndpointsWitness ==
    /\ Len(rows) = 630
    /\ \E k \in 1..Len(rows) :
         /\ 109 < rows[k][1] /\ rows[k][1] < 139
         /\ 40 < rows[k][2] /\ rows[k][2] < 92
         /\ 217 < rows[k][3] /\ rows[k][3] < 246

\* C2: row 0 has exactly the start colour (139, 92, 246), and row 629
\* differs from the end colour (109, 40, 217) by at most 1 per channel.
BoundaryRowsWithinTolerance ==
    /\ Len(rows) >= 1 => rows[1] = <<139, 92, 246>>
    /\ Len(rows) = 630 =>
         /\ Abs(rows[630][1] - 109) <= 1
         /\ Abs(rows[630][2] - 40) <= 1
         /\ Abs(rows[630][3] - 217) <= 1

\* the gradient is complete and the script has gone on to the overlay
BoundaryRowsWithinToleranceWitness ==
    /\ pc = "icon"
    /\ Len(rows) = 630

\* C3: the boundary rows equal the endpoint colours exactly: row 0 is
\* (139, 92, 246) and row 629 is (109, 40, 217).
BoundaryRowsExact ==
    /\ Len(rows) >= 1 => rows[1] = <<139, 92, 246>>
    /\ Len(rows) = 630 => rows[630] = <<109, 40, 217>>

\* the loop has just drawn its last row, y = height - 1
BoundaryRowsExactWitness ==
    /\ pc = "gradient"
    /\ y = 630
    /\ Len(rows) = 630

\* C4: from canvas creation on, whatever the fonts resolve to, the canvas
\* is 1200 x 630 and width and height keep these values.
CanvasSizeConstant ==
    pc # "create" =>
        /\ image.size = <<1200, 630>>
        /\ width = 1200
        /\ height = 630

\* a run that fell back to the secondary fonts and finished
CanvasSizeConstantWitness ==
    /\ pc = "done"
    /\ Fonts = SecondaryFonts
    /\ image.size = <<1200, 630>>

\* C5, as claimed: each asset resolves on its own: its primary font when
\* its primary load succeeded, its secondary font when its primary load
\* failed and its secondary load succeeded, the default font only when both
\* of its loads failed (a load that was never attempted counts as failed).
PerAssetResolution ==
    FontsResolved =>
        \A a \in 1..3 :
            LET p == <<"load_p_title", "load_p_tagline", "load_p_badge">>[a]
                q == <<"load_s_title", "load_s_tagline", "load_s_badge">>[a]
            IN /\ loaded[p] = "ok" => Fonts[a] = PrimaryFonts[a]
               /\ (loaded[p] = "failed" /\ loaded[q] = "ok")
                     => Fonts[a] = SecondaryFonts[a]
               /\ Fonts[a] = DefaultFont
                     => (loaded[p] # "ok" /\ loaded[q] # "ok")

\* C5, amended: the three assets resolve together, tier by tier: all to
\* their primary fonts when all three primary loads succeeded; otherwise all
\* to their secondary fonts when all three secondary loads succeeded;
\* otherwise all to the default font.
PerTierResolution ==
    FontsResolved =>
        LET pOK == \A k \in PrimarySteps : loaded[k] = "ok"
            sOK == \A k \in SecondarySteps : loaded[k] = "ok"
        IN /\ pOK => Fonts = PrimaryFonts
           /\ (~pOK /\ sOK) => Fonts = SecondaryFonts
           /\ (~pOK /\ ~sOK) => Fonts = <<DefaultFont, DefaultFont, DefaultFont>>

\* the title's primary load succeeded, another primary load failed, and the
\* title ended on the default font
PerTierResolutionWitness ==
    /\ pc = "title"
    /\ loaded["load_p_title"] = "ok"
    /\ loaded["load_p_tagline"] = "failed"
    /\ title_font = DefaultFont

\* C6: a failing font load is never fatal: past the font block all three
\* fonts are assigned, they are the default font when no truetype call
\* succeeded, the only error exit is a failed save; the run always gets
\* from the first load to the text layout, and a successful save is always
\* followed by the success message.
FontFailureNotFatal ==
    /\ [](FontsResolved =>
            /\ \A a \in 1..3 : Fonts[a] # NoFont
            /\ (\A k \in LoadSteps : loaded[k] # "ok")
                  => Fonts = <<DefaultFont, DefaultFont, DefaultFont>>
            /\ pc = "error" => saved = "failed")
    /\ (pc = "load_p_title") ~> (pc = "title")
    /\ (saved = "ok") ~> (pc = "done" /\ printed)

\* no system font was found and the run completed with the message
FontFailureNotFatalWitness ==
    /\ pc = "done"
    /\ printed
    /\ loaded["load_p_title"] = "failed"
    /\ loaded["load_s_title"] = "failed"
    /\ Fonts = <<DefaultFont, DefaultFont, DefaultFont>>

\* C7: the x-offset the title is drawn at satisfies
\* offset + title_width / 2 = width / 2 = 600 within rounding (here: within
\* half a pixel; title_pos[1] is the offset in half pixels).
TitleCentred ==
    title_pos # <<>> =>
        /\ Abs(title_pos[1] + title_width - 1200) <= 1
        /\ width = 1200

\* a title of odd width has been drawn at a fractional offset
TitleCentredWitness ==
    /\ pc = "tagline"
    /\ title_width = 3
    /\ title_pos = <<1197, 280>>

\* C9: a failed save ends the run in the error state with a non-zero exit
\* status and without the success message; the message is printed only
\* after a successful save, and a run that printed it ends with status 0.
SaveFailureFatal ==
    /\ saved = "failed" => (pc = "error" /\ ~printed /\ exitCode = 1)
    /\ printed => (saved = "ok" /\ pc = "done" /\ exitCode = 0)
    /\ pc = "done" => printed

\* the save has failed
SaveFailureFatalWitness ==
    /\ saved = "failed"
    /\ pc = "error"
    /\ badge_i = Len(badges) + 1

\* C10: in the complete gradient no channel increases from a row to any
\* later row.
GradientMonotonic ==
    (pc = "gradient" /\ y = height) =>
        \A k1 \in 1..Len(rows) : \A k2 \in (k1 + 1)..Len(rows) :
            /\ rows[k2][1] <= rows[k1][1]
            /\ rows[k2][2] <= rows[k1][2]
            /\ rows[k2][3] <= rows[k1][3]

\* the complete gradient, in which every channel has gone down
GradientMonotonicWitness ==
    /\ pc = "gradient"
    /\ y = height
    /\ Len(rows) = 630
    /\ rows[630][1] < rows[1][1]
    /\ rows[630][2] < rows[1][2]
    /\ rows[630][3] < rows[1][3]
====
